---- MODULE Spec2Model ----
(***************************************************************************)
(* State-machine model of src/src/main.ts: the geocoin game core.          *)
(*                                                                         *)
(* Units.  Latitudes and longitudes are fixed-point integers counted in    *)
(* half tiles (5e-5 degrees) and measured from the cell-aligned point next *)
(* to the default playerPosition, so that toGridCell's Math.round and a    *)
(* position on a cell boundary are both representable.                     *)
(*                                                                         *)
(* Text.  A decimal string is a sequence of one-character strings.  A JSON *)
(* text is a record [ok, v]: ok says whether JSON.parse accepts the text,  *)
(* v is the parsed value.  A localStorage entry is <<>> when getItem       *)
(* returns null and <<text>> otherwise.                                    *)
(***************************************************************************)
EXTENDS Integers, Sequences, FiniteSets, TLC

\* ------------------------------------------------------------------ bounds
\* positions stay within 0..MaxLat by 0..MaxLng half tiles of the origin
MaxLat == 2
MaxLng == 0
\* position updates recorded in playerPath before a reset
MaxPath == 2
\* coins collected (playerCoins) before a reset
MaxCollects == 3
\* draws of Math.random() that fall below CACHE_SPAWN_PROBABILITY
MaxSpawns == 2
\* tileVisibilityRadius of the board (NEIGHBORHOOD_SIZE is 8 in the source)
NEIGHBORHOOD_SIZE == 1
\* what localStorage holds, in entries and array elements, before setItem
\* throws QuotaExceededError, on a profile whose storage is nearly full
StorageQuota == 21

\* --------------------------------------------------------------- constants
\* one tile, in half tiles
TILE_DEGREES == 2
\* in thousandths, the unit of luck
CACHE_SPAWN_PROBABILITY == 100
\* the value of NEIGHBORHOOD_SIZE in the source
DEFAULT_NEIGHBORHOOD_SIZE == 8
\* the result of parseInt on a string without a leading number; any
\* comparison NaN > 0 is false, as in the source
NaN == -1000

\* ----------------------------------------------------------------- helpers
Lats == 0..MaxLat
Lngs == 0..MaxLng

\* leaflet.latLng(lat, lng)
latLng(lat, lng) == [lat |-> lat, lng |-> lng]

\* Math.round(x / 2) for x counted in half tiles: rounds halves upwards
toGridCell(latitude, longitude) ==
  [i |-> (latitude + 1) \div 2, j |-> (longitude + 1) \div 2]

\* `${cell.i}:${cell.j}`
cellKey(cell) == <<cell.i, cell.j>>

\* key.split(":").map(Number)
keyToCell(key) == [i |-> key[1], j |-> key[2]]

\* Board.getCellsNearPoint, mapped to keys as repopulateCaches does
getCellsNearPoint(point) ==
  LET originCell == toGridCell(point.lat, point.lng)
  IN { cellKey([i |-> originCell.i + di, j |-> originCell.j + dj]) :
         di \in (0 - NEIGHBORHOOD_SIZE)..NEIGHBORHOOD_SIZE,
         dj \in (0 - NEIGHBORHOOD_SIZE)..NEIGHBORHOOD_SIZE }

\* every cell key a window can contain within the bounds
AllCells ==
  UNION { getCellsNearPoint(latLng(a, b)) : a \in Lats, b \in Lngs }

\* the loops of Board.getCellsNearPoint with `<` in place of `<=`
cellsNearPointArray_Exclusive(point, radius) ==
  LET originCell == toGridCell(point.lat, point.lng)
      side == 2 * radius
  IN [n \in 1..(side * side) |->
        cellKey([i |-> originCell.i - radius + ((n - 1) \div side),
                 j |-> originCell.j - radius + ((n - 1) % side)])]

\* the array Board.getCellsNearPoint returns for a board of the given
\* tileVisibilityRadius, as keys, in the order the two loops push the cells
cellsNearPointArray(point, radius) ==
  LET originCell == toGridCell(point.lat, point.lng)
      side == 2 * radius + 1
  IN [n \in 1..(side * side) |->
        cellKey([i |-> originCell.i - radius + ((n - 1) \div side),
                 j |-> originCell.j - radius + ((n - 1) % side)])]

\* Board.getCellBounds: the south-west and north-east corners
getCellBounds(cell) ==
  [southWest |-> latLng(cell.i * TILE_DEGREES, cell.j * TILE_DEGREES),
   northEast |-> latLng((cell.i + 1) * TILE_DEGREES,
                        (cell.j + 1) * TILE_DEGREES)]

\* LatLngBounds.getCenter
getCenter(bounds) ==
  latLng((bounds.southWest.lat + bounds.northEast.lat) \div 2,
         (bounds.southWest.lng + bounds.northEast.lng) \div 2)

\* a cell object: its coordinates and obj, the identity of the object
CellObject(key, obj) == [i |-> key[1], j |-> key[2], obj |-> obj]

\* getCanonicalCell storing the cell it is given on every call
getCanonicalCell_Overwrites(known, cell) ==
  (cellKey(cell) :> cell) @@ known

\* Board.getCanonicalCell: knownCells after the call; the cell returned is
\* the one it then holds under the key
getCanonicalCell(known, cell) ==
  IF cellKey(cell) \in DOMAIN known THEN known
  ELSE (cellKey(cell) :> cell) @@ known

RECURSIVE pushCanonicalCells(_, _, _, _)
\* the loops of Board.getCellsNearPoint from the n-th push on: each pushes
\* the canonical cell of a new object, the n-th made by call number serial
pushCanonicalCells(known, keys, serial, n) ==
  IF n > Len(keys) THEN known
  ELSE pushCanonicalCells(
         getCanonicalCell(known, CellObject(keys[n], <<serial, n>>)),
         keys, serial, n + 1)

\* knownCells after Board.getCellsNearPoint(point): getCellForPoint on the
\* object toGridCell makes, then the loops
knownAfterCellsNearPoint(known, point, serial) ==
  pushCanonicalCells(
    getCanonicalCell(
      known,
      CellObject(cellKey(toGridCell(point.lat, point.lng)), <<serial, 0>>)),
    cellsNearPointArray(point, NEIGHBORHOOD_SIZE), serial, 1)

\* luck(seed) of ./luck.ts, in thousandths: a fixed function of the seed.
\* The seed is the list joined by commas: <<i, j>> or <<i, j, "initialValue">>.
luck(seed) ==
  LET tag == IF Len(seed) = 3 THEN 1 ELSE 0
  IN (17 * seed[1] + 101 * seed[2] + 2 * tag) % 1000

\* a cache whose point value is rounded to the nearest integer
NewCache_Rounded(i, j) ==
  [i |-> i, j |-> j,
   pointValue |-> (luck(<<i, j, "initialValue">>) * 100 + 500) \div 1000,
   cacheCoins |-> 0]

\* Cache constructor
NewCache(i, j) ==
  [i |-> i, j |-> j,
   pointValue |-> (luck(<<i, j, "initialValue">>) * 100) \div 1000,
   cacheCoins |-> 0]

\* toMemento writing the point value under both names
toMemento_ValueTwice(cache) ==
  [ok |-> TRUE,
   v |-> [pointValue |-> cache.pointValue, cacheCoins |-> cache.pointValue]]

\* Cache.toMemento
toMemento(cache) ==
  [ok |-> TRUE,
   v |-> [pointValue |-> cache.pointValue, cacheCoins |-> cache.cacheCoins]]

\* fromMemento restoring the point value only
fromMemento_ValueOnly(cache, memento) ==
  [cache EXCEPT !.pointValue = memento.v.pointValue]

\* Cache.fromMemento on a parseable memento
fromMemento(cache, memento) ==
  [cache EXCEPT !.pointValue = memento.v.pointValue,
                !.cacheCoins = memento.v.cacheCoins]

\* x++ on a JavaScript number
Inc(x) == IF x = NaN THEN NaN ELSE x + 1
\* a decrement that leaves the number as it is
Dec_Stuck(x) == x
\* x-- on a JavaScript number
Dec(x) == IF x = NaN THEN NaN ELSE x - 1

DigitChars == <<"0", "1", "2", "3", "4", "5", "6", "7", "8", "9">>
IsDigit(c) == \E d \in 1..10 : DigitChars[d] = c
DigitVal(c) == (CHOOSE d \in 1..10 : DigitChars[d] = c) - 1

RECURSIVE NatToString(_)
NatToString(n) ==
  IF n < 10 THEN <<DigitChars[n + 1]>>
  ELSE NatToString(n \div 10) \o <<DigitChars[(n % 10) + 1]>>

\* Number.prototype.toString
numToString(n) ==
  IF n = NaN THEN <<"N", "a", "N">>
  ELSE IF n < 0 THEN <<"-">> \o NatToString(0 - n)
  ELSE NatToString(n)

RECURSIVE DigitPrefix(_, _)
\* value of the longest prefix of digits of s, continuing from acc
DigitPrefix(s, acc) ==
  IF s = <<>> \/ ~IsDigit(Head(s)) THEN acc
  ELSE DigitPrefix(Tail(s), 10 * acc + DigitVal(Head(s)))

\* parseInt(s, 10)
ParseInt(s) ==
  LET neg == s # <<>> /\ Head(s) = "-"
      body == IF neg THEN Tail(s) ELSE s
  IN IF body = <<>> \/ ~IsDigit(Head(body)) THEN NaN
     ELSE IF neg THEN 0 - DigitPrefix(body, 0) ELSE DigitPrefix(body, 0)

RECURSIVE SetToSeq(_)
\* Array.from(set): the elements in the collection's iteration order
SetToSeq(S) ==
  IF S = {} THEN <<>>
  ELSE LET x == CHOOSE y \in S : TRUE IN <<x>> \o SetToSeq(S \ {x})

SeqToSet(s) == { s[n] : n \in 1..Len(s) }

RECURSIVE KSubsets(_, _)
\* the subsets of S with at most k elements
KSubsets(S, k) ==
  IF k <= 0 THEN {{}}
  ELSE LET prev == KSubsets(S, k - 1)
       IN prev \cup { T \cup {x} : T \in prev, x \in S }

\* JSON texts
Json(v) == [ok |-> TRUE, v |-> v]
Malformed == [ok |-> FALSE, v |-> <<>>]

Present(text) == <<text>>
Absent == <<>>

\* ------------------------------------------------------------------- state
VARIABLES
  pc,                        \* "boot", "loaded", "running" or "crashed"
  playerPosition,
  playerPath,
  cacheStates,               \* key -> Cache
  cacheRenderers,            \* keys with a CacheRenderer
  visitedCells,
  playerCoins,
  coinsAvailableForDeposit,
  tracking,                  \* geolocationFacade.tracking
  localStorage,
  lastEvent,                 \* history: the handler that ran last
  collectedFrom,             \* history: coins collected, per cell
  depositedTo,               \* history: coins deposited, per cell
  knownCells,                \* board.knownCells: key -> cell object
  alertShown,                \* the text the last handler passed to alert()
  threw,                     \* the last handler ended in an exception
  atReload,                  \* history: the decisions held at the last reload
  quota,                     \* environment: <<>> or <<entries storage holds>>
  sensorAvailable            \* environment: navigator.geolocation exists

mem == <<playerPosition, playerPath, cacheStates, visitedCells,
         playerCoins, coinsAvailableForDeposit>>
hist == <<collectedFrom, depositedTo>>
env == <<quota, sensorAvailable>>
vars == <<pc, playerPosition, playerPath, cacheStates, cacheRenderers,
          visitedCells, playerCoins, coinsAvailableForDeposit, tracking,
          localStorage, lastEvent, collectedFrom, depositedTo, knownCells,
          alertShown, threw, atReload, quota, sensorAvailable>>

\* initial value of playerPosition
OriginPosition == latLng(0, 0)

EmptyStorage ==
  [playerPosition |-> Absent, playerCoins |-> Absent,
   coinsAvailableForDeposit |-> Absent, visitedCells |-> Absent,
   cacheStates |-> Absent, playerPath |-> Absent, cellKeys |-> {}]

NoCoins == [c \in AllCells |-> 0]

Event(op, ok) == [op |-> op, ok |-> ok]

NoAlert == ""
StartedAlert == "Geolocation tracking started."
StoppedAlert == "Geolocation tracking stopped."

\* the decisions a page holds: the visited cells and those with a cache
Decisions(visited, caches) == [visited |-> visited, caches |-> DOMAIN caches]
NoDecisions == Decisions({}, <<>>)

NoQuota == <<>>

\* the module-level declarations: the state of a freshly loaded page
FreshPage ==
  /\ pc = "boot"
  /\ playerPosition = OriginPosition
  /\ playerPath = <<>>
  /\ cacheStates = <<>>
  /\ cacheRenderers = {}
  /\ visitedCells = {}
  /\ playerCoins = 0
  /\ coinsAvailableForDeposit = 0
  /\ tracking = FALSE
  /\ knownCells = <<>>
  /\ alertShown = NoAlert
  /\ threw = FALSE

\* nothing has happened yet
NoHistory ==
  /\ lastEvent = Event("open", TRUE)
  /\ collectedFrom = NoCoins
  /\ depositedTo = NoCoins
  /\ atReload = NoDecisions

Init ==
  /\ FreshPage
  /\ localStorage = EmptyStorage
  /\ NoHistory
  /\ quota = NoQuota
  /\ sensorAvailable = TRUE

\* ------------------------------------------------------------- persistence
\* saveGameState without the setItem for playerPosition
saveGameState_KeepsPosition(store, position, path, caches, visited, coins, forDeposit) ==
  [store EXCEPT
     !.playerCoins = Present(numToString(coins)),
     !.coinsAvailableForDeposit = Present(numToString(forDeposit)),
     !.visitedCells = Present(Json(SetToSeq(visited))),
     !.cacheStates =
        Present(Json(LET keys == SetToSeq(DOMAIN caches)
                     IN [n \in 1..Len(keys) |->
                           <<keys[n], toMemento(caches[keys[n]])>>])),
     !.playerPath =
        Present(Json([n \in 1..Len(path) |-> <<path[n].lat, path[n].lng>>]))]

\* saveGameState: the six setItem calls; other entries are left alone
saveGameState(store, position, path, caches, visited, coins, forDeposit) ==
  [store EXCEPT
     !.playerPosition = Present(Json(position)),
     !.playerCoins = Present(numToString(coins)),
     !.coinsAvailableForDeposit = Present(numToString(forDeposit)),
     !.visitedCells = Present(Json(SetToSeq(visited))),
     !.cacheStates =
        Present(Json(LET keys == SetToSeq(DOMAIN caches)
                     IN [n \in 1..Len(keys) |->
                           <<keys[n], toMemento(caches[keys[n]])>>])),
     !.playerPath =
        Present(Json([n \in 1..Len(path) |-> <<path[n].lat, path[n].lng>>]))]

\* the array under visitedCells in a record, as a set; nothing when the
\* entry is absent
persistedVisited(store) ==
  IF store.visitedCells = Absent THEN {}
  ELSE SeqToSet(store.visitedCells[1].v)

\* the keys of the array of [key, memento] pairs under cacheStates
persistedCacheKeys(store) ==
  IF store.cacheStates = Absent THEN {}
  ELSE { store.cacheStates[1].v[n][1] :
           n \in 1..Len(store.cacheStates[1].v) }

\* the keys in the order saveGameState writes them
SaveOrder ==
  <<"playerPosition", "playerCoins", "coinsAvailableForDeposit",
    "visitedCells", "cacheStates", "playerPath">>

\* what an entry takes of the storage: one unit, and one for each element
\* of an array
entrySize(store, key) ==
  IF store[key] = Absent THEN 0
  ELSE IF key \in {"visitedCells", "cacheStates", "playerPath"}
            /\ store[key][1].ok
  THEN 1 + Len(store[key][1].v)
  ELSE 1

storageSize(store) ==
  entrySize(store, "playerPosition") + entrySize(store, "playerCoins")
    + entrySize(store, "coinsAvailableForDeposit")
    + entrySize(store, "visitedCells") + entrySize(store, "cacheStates")
    + entrySize(store, "playerPath") + Cardinality(store.cellKeys)

RECURSIVE setItems(_, _, _, _, _)
\* the setItem calls of saveGameState from the n-th on, full holding the
\* values to write and size being what the storage holds: a call that would
\* exceed the quota throws and leaves the entries after it as they were
setItems(store, full, q, n, size) ==
  IF n > Len(SaveOrder) THEN [store |-> store, thrown |-> FALSE]
  ELSE LET key == SaveOrder[n]
           grown == size - entrySize(store, key) + entrySize(full, key)
       IN IF grown > q[1]
          THEN [store |-> store, thrown |-> TRUE]
          ELSE setItems([store EXCEPT ![key] = full[key]], full, q, n + 1,
                        grown)

\* saveGameState on a storage with quota q: the storage it leaves and
\* whether it threw
saveOutcome(store, q, position, path, caches, visited, coins, forDeposit) ==
  LET full == saveGameState(store, position, path, caches, visited, coins,
                            forDeposit)
  IN IF q = NoQuota
     THEN [store |-> full, thrown |-> FALSE]
     ELSE setItems(store, full, q, 1, storageSize(store))

\* `if (loaded)` on the result of getItem: neither null nor the empty string
Truthy(entry) == entry # Absent /\ entry[1] # <<>>

RECURSIVE loadCacheEntries(_, _)
\* the forEach of loadGameState over the parsed cacheStates array; a memento
\* JSON.parse rejects throws out of the loop, keeping the caches set so far
loadCacheEntries(entries, acc) ==
  IF entries = <<>> THEN [thrown |-> FALSE, caches |-> acc]
  ELSE LET key == Head(entries)[1]
           memento == Head(entries)[2]
           cell == keyToCell(key)
       IN IF ~memento.ok THEN [thrown |-> TRUE, caches |-> acc]
          ELSE loadCacheEntries(
                 Tail(entries),
                 [k \in DOMAIN acc \cup {key} |->
                    IF k = key
                    THEN fromMemento(NewCache(cell.i, cell.j), memento)
                    ELSE acc[k]])

\* loadGameState, statement by statement; a JSON.parse that throws ends it,
\* keeping what the statements before it assigned
loadGameState(store, m) ==
  LET s1 == IF store.playerPosition = Absent THEN m
            ELSE IF ~store.playerPosition[1].ok
            THEN [m EXCEPT !.thrown = TRUE]
            ELSE [m EXCEPT !.playerPosition =
                    latLng(store.playerPosition[1].v.lat,
                           store.playerPosition[1].v.lng)]
      s2 == IF s1.thrown \/ ~Truthy(store.playerCoins) THEN s1
            ELSE [s1 EXCEPT !.playerCoins = ParseInt(store.playerCoins[1])]
      s3 == IF s2.thrown \/ ~Truthy(store.coinsAvailableForDeposit) THEN s2
            ELSE [s2 EXCEPT !.coinsAvailableForDeposit =
                    ParseInt(store.coinsAvailableForDeposit[1])]
      s4 == IF s3.thrown \/ store.visitedCells = Absent THEN s3
            ELSE IF ~store.visitedCells[1].ok
            THEN [s3 EXCEPT !.thrown = TRUE]
            ELSE [s3 EXCEPT !.visitedCells =
                    SeqToSet(store.visitedCells[1].v)]
      s5 == IF s4.thrown \/ store.cacheStates = Absent THEN s4
            ELSE IF ~store.cacheStates[1].ok
            THEN [s4 EXCEPT !.thrown = TRUE, !.cacheStates = <<>>]
            ELSE LET r == loadCacheEntries(store.cacheStates[1].v, <<>>)
                 IN [s4 EXCEPT !.thrown = r.thrown, !.cacheStates = r.caches]
      s6 == IF s5.thrown \/ store.playerPath = Absent THEN s5
            ELSE IF ~store.playerPath[1].ok
            THEN [s5 EXCEPT !.thrown = TRUE]
            ELSE [s5 EXCEPT !.playerPath =
                    [n \in 1..Len(store.playerPath[1].v) |->
                       latLng(store.playerPath[1].v[n][1],
                              store.playerPath[1].v[n][2])]]
  IN s6

\* the game state as loadGameState sees it
Memory(position, path, caches, visited, coins, forDeposit) ==
  [thrown |-> FALSE, playerPosition |-> position, playerPath |-> path,
   cacheStates |-> caches, visitedCells |-> visited, playerCoins |-> coins,
   coinsAvailableForDeposit |-> forDeposit]

CurrentMemory ==
  Memory(playerPosition, playerPath, cacheStates, visitedCells, playerCoins,
         coinsAvailableForDeposit)

DefaultMemory == Memory(OriginPosition, <<>>, <<>>, {}, 0, 0)

\* ------------------------------------------------------- visibility window
\* repopulateCaches without its isVisited guard
isVisited_Never(cacheKey) == FALSE

\* the isVisited test of repopulateCaches
isVisited(cacheKey) ==
  cacheKey \in visitedCells \/ cacheKey \in localStorage.cellKeys

\* the cells of the window at point whose spawn decision is still open and
\* for which Math.random() is drawn
spawnCandidates(point) ==
  { k \in getCellsNearPoint(point) :
      ~isVisited(k) /\ k \notin DOMAIN cacheStates }

\* a recompute that builds the caches of the cells it draws for and of the
\* cells it draws nothing for alike
cachesAfterRepopulate_Restocked(lucky) ==
  [k \in DOMAIN cacheStates \cup lucky |->
     NewCache(keyToCell(k).i, keyToCell(k).j)]

\* cacheStates after repopulateCaches, lucky being the cells whose draw of
\* Math.random() fell below CACHE_SPAWN_PROBABILITY
cachesAfterRepopulate(lucky) ==
  [k \in DOMAIN cacheStates \cup lucky |->
     IF k \in DOMAIN cacheStates THEN cacheStates[k]
     ELSE NewCache(keyToCell(k).i, keyToCell(k).j)]

\* repopulateCaches without its visitedCells.add
visitedAfterRepopulate_NeverAdds(point) == visitedCells

\* visitedCells after repopulateCaches at point
visitedAfterRepopulate(point) ==
  visitedCells \cup { k \in getCellsNearPoint(point) : ~isVisited(k) }

\* repopulateCaches without the loop that removes the markers outside the
\* window
renderersAfterRepopulate_NoTeardown(point, caches) ==
  cacheRenderers \cup { k \in getCellsNearPoint(point) : k \in DOMAIN caches }

\* cacheRenderers after repopulateCaches at point, given the caches it left
renderersAfterRepopulate(point, caches) ==
  { k \in cacheRenderers : k \in getCellsNearPoint(point) }
    \cup { k \in getCellsNearPoint(point) : k \in DOMAIN caches }

\* the outcomes of the Math.random() draws that are considered: the draws
\* that fall below the threshold are for cells of the columns the player
\* stands in, and leave at most MaxSpawns caches
LuckyDraws(point) ==
  KSubsets({ k \in spawnCandidates(point) : k[2] \in Lngs },
           MaxSpawns - Cardinality(DOMAIN cacheStates))

\* ----------------------------------------------------------------- actions
\* DOMContentLoaded handler, first statement
LoadGameState ==
  /\ pc = "boot"
  /\ LET r == loadGameState(localStorage, CurrentMemory)
     IN /\ playerPosition' = r.playerPosition
        /\ playerPath' = r.playerPath
        /\ cacheStates' = r.cacheStates
        /\ visitedCells' = r.visitedCells
        /\ playerCoins' = r.playerCoins
        /\ coinsAvailableForDeposit' = r.coinsAvailableForDeposit
        /\ pc' = IF r.thrown THEN "crashed" ELSE "loaded"
        /\ lastEvent' = Event("load", ~r.thrown)
        /\ threw' = r.thrown
  /\ UNCHANGED <<cacheRenderers, tracking, localStorage, hist, knownCells,
                 alertShown, atReload, env>>

\* DOMContentLoaded handler, the rest: initializeMap (which repopulates the
\* window) and the registration of the controls
InitializeMap ==
  /\ pc = "loaded"
  /\ \E lucky \in LuckyDraws(playerPosition) :
       /\ cacheStates' = cachesAfterRepopulate(lucky)
       /\ visitedCells' = visitedAfterRepopulate(playerPosition)
       /\ cacheRenderers' =
            renderersAfterRepopulate(playerPosition,
                                     cachesAfterRepopulate(lucky))
  /\ knownCells' =
       knownAfterCellsNearPoint(knownCells, playerPosition, Len(playerPath))
  /\ pc' = "running"
  /\ lastEvent' = Event("initializeMap", TRUE)
  /\ UNCHANGED <<playerPosition, playerPath, playerCoins,
                 coinsAvailableForDeposit, tracking, localStorage, hist,
                 alertShown, threw, atReload, env>>

\* a position update that saves before it recomputes the window
PositionUpdate_SaveFirst(newPosition, op) ==
  /\ Len(playerPath) < MaxPath
  /\ playerPosition' = newPosition
  /\ playerPath' = Append(playerPath, newPosition)
  /\ LET saved == saveOutcome(localStorage, quota, playerPosition',
                              playerPath', cacheStates, visitedCells,
                              playerCoins, coinsAvailableForDeposit)
     IN /\ localStorage' = saved.store
        /\ threw' = saved.thrown
  /\ \E lucky \in LuckyDraws(newPosition) :
       /\ cacheStates' = cachesAfterRepopulate(lucky)
       /\ visitedCells' = visitedAfterRepopulate(newPosition)
       /\ cacheRenderers' =
            renderersAfterRepopulate(newPosition,
                                     cachesAfterRepopulate(lucky))
  /\ knownCells' =
       knownAfterCellsNearPoint(knownCells, newPosition, Len(playerPath'))
  /\ lastEvent' = Event(op, TRUE)
  /\ alertShown' = NoAlert
  /\ atReload' = NoDecisions
  /\ UNCHANGED <<pc, playerCoins, coinsAvailableForDeposit, tracking,
                 collectedFrom, depositedTo, env>>

\* a position update: the body shared by movePlayer and the watchPosition
\* callback
PositionUpdate(newPosition, op) ==
  /\ Len(playerPath) < MaxPath
  /\ playerPosition' = newPosition
  /\ playerPath' = Append(playerPath, newPosition)
  /\ \E lucky \in LuckyDraws(newPosition) :
       /\ cacheStates' = cachesAfterRepopulate(lucky)
       /\ visitedCells' = visitedAfterRepopulate(newPosition)
       /\ cacheRenderers' =
            renderersAfterRepopulate(newPosition,
                                     cachesAfterRepopulate(lucky))
  /\ knownCells' =
       knownAfterCellsNearPoint(knownCells, newPosition, Len(playerPath'))
  /\ LET saved == saveOutcome(localStorage, quota, playerPosition',
                              playerPath', cacheStates', visitedCells',
                              playerCoins, coinsAvailableForDeposit)
     IN /\ localStorage' = saved.store
        /\ threw' = saved.thrown
  /\ lastEvent' = Event(op, TRUE)
  /\ alertShown' = NoAlert
  /\ atReload' = NoDecisions
  /\ UNCHANGED <<pc, playerCoins, coinsAvailableForDeposit, tracking,
                 collectedFrom, depositedTo, env>>

\* movePlayer(dx, dy): the four arrow buttons
MovePlayer ==
  /\ pc = "running"
  /\ \E d \in { <<0, TILE_DEGREES>>, <<0, 0 - TILE_DEGREES>>,
                <<0 - TILE_DEGREES, 0>>, <<TILE_DEGREES, 0>> } :
       /\ playerPosition.lat + d[2] \in Lats
       /\ playerPosition.lng + d[1] \in Lngs
       /\ PositionUpdate(latLng(playerPosition.lat + d[2],
                                playerPosition.lng + d[1]), "move")

\* the watchPosition callback registered by toggleGeolocation
GeolocationFix ==
  /\ pc = "running"
  /\ tracking
  /\ \E lat \in Lats, lng \in Lngs :
       PositionUpdate(latLng(lat, lng), "geolocation")

\* GeolocationFacade.startTracking: the value of its tracking field after it
startTracking(available, isTracking) ==
  IF available /\ ~isTracking THEN TRUE ELSE isTracking

\* GeolocationFacade.stopTracking; watchId is set exactly while tracking is
stopTracking(isTracking) == IF isTracking THEN FALSE ELSE isTracking

\* toggleGeolocation: the sensor button
ToggleGeolocation ==
  /\ pc = "running"
  /\ IF ~tracking
     THEN /\ tracking' = startTracking(sensorAvailable, tracking)
          /\ alertShown' = StartedAlert
     ELSE /\ tracking' = stopTracking(tracking)
          /\ alertShown' = StoppedAlert
  /\ lastEvent' = Event("sensor", TRUE)
  /\ threw' = FALSE
  /\ atReload' = NoDecisions
  /\ UNCHANGED <<pc, mem, cacheRenderers, localStorage, collectedFrom,
                 depositedTo, knownCells, env>>

\* a collect handler without its test
canCollect_Always(cache) == TRUE

\* the test of the collect handler
canCollect(cache) == cache.pointValue > 0

\* a collect that takes all the cache holds
afterCollect_Drained(cache) == [cache EXCEPT !.pointValue = 0]

\* the cache after the collect handler's pointValue--
afterCollect(cache) == [cache EXCEPT !.pointValue = Dec(@)]

\* a deposit handler without its test
canDeposit_Always(coins) == TRUE

\* the test of the deposit handler
canDeposit(coins) == coins > 0

\* a deposit that adds to the cache's point value
afterDeposit_IntoValue(cache) == [cache EXCEPT !.pointValue = Inc(@)]

\* the cache after the deposit handler's cacheCoins++
afterDeposit(cache) == [cache EXCEPT !.cacheCoins = Inc(@)]

\* the click handler of a popup's collect button
Collect(key) ==
  /\ pc = "running"
  /\ key \in cacheRenderers
  /\ IF canCollect(cacheStates[key])
     THEN /\ collectedFrom[key] < MaxCollects
          /\ playerCoins # NaN => playerCoins < MaxCollects
          /\ cacheStates' =
               [cacheStates EXCEPT ![key] = afterCollect(@)]
          /\ playerCoins' = Inc(playerCoins)
          /\ coinsAvailableForDeposit' = Inc(coinsAvailableForDeposit)
          /\ LET saved == saveOutcome(localStorage, quota, playerPosition,
                                      playerPath, cacheStates', visitedCells,
                                      playerCoins', coinsAvailableForDeposit')
             IN /\ localStorage' = saved.store
                /\ threw' = saved.thrown
          /\ collectedFrom' = [collectedFrom EXCEPT ![key] = @ + 1]
          /\ lastEvent' = Event("collect", TRUE)
     ELSE /\ lastEvent' = Event("collect", FALSE)
          /\ threw' = FALSE
          /\ UNCHANGED <<cacheStates, playerCoins, coinsAvailableForDeposit,
                         localStorage, collectedFrom>>
  /\ alertShown' = NoAlert
  /\ atReload' = NoDecisions
  /\ UNCHANGED <<pc, playerPosition, playerPath, visitedCells,
                 cacheRenderers, tracking, depositedTo, knownCells, env>>

\* the click handler of a popup's deposit button
Deposit(key) ==
  /\ pc = "running"
  /\ key \in cacheRenderers
  /\ IF canDeposit(coinsAvailableForDeposit)
     THEN /\ coinsAvailableForDeposit' = Dec(coinsAvailableForDeposit)
          /\ cacheStates' =
               [cacheStates EXCEPT ![key] = afterDeposit(@)]
          /\ LET saved == saveOutcome(localStorage, quota, playerPosition,
                                      playerPath, cacheStates', visitedCells,
                                      playerCoins, coinsAvailableForDeposit')
             IN /\ localStorage' = saved.store
                /\ threw' = saved.thrown
          /\ depositedTo' = [depositedTo EXCEPT ![key] = @ + 1]
          /\ lastEvent' = Event("deposit", TRUE)
     ELSE /\ lastEvent' = Event("deposit", FALSE)
          /\ threw' = FALSE
          /\ UNCHANGED <<cacheStates, coinsAvailableForDeposit,
                         localStorage, depositedTo>>
  /\ alertShown' = NoAlert
  /\ atReload' = NoDecisions
  /\ UNCHANGED <<pc, playerPosition, playerPath, visitedCells, playerCoins,
                 cacheRenderers, tracking, collectedFrom, knownCells, env>>

\* the browser discards the page and loads it again: every module-level
\* variable is re-initialised
PageReload ==
  /\ pc' = "boot"
  /\ playerPosition' = OriginPosition
  /\ playerPath' = <<>>
  /\ cacheStates' = <<>>
  /\ cacheRenderers' = {}
  /\ visitedCells' = {}
  /\ playerCoins' = 0
  /\ coinsAvailableForDeposit' = 0
  /\ tracking' = FALSE
  /\ knownCells' = <<>>
  /\ alertShown' = NoAlert
  /\ threw' = FALSE

\* the user reloads or reopens the page
Reload ==
  /\ pc \in {"running", "crashed"}
  /\ PageReload
  /\ lastEvent' = Event("reload", TRUE)
  /\ atReload' = Decisions(visitedCells, cacheStates)
  /\ UNCHANGED <<localStorage, hist, env>>

\* a reset that reloads the page without localStorage.clear()
ResetGame_KeepsStorage ==
  /\ pc = "running"
  /\ \E confirmation \in BOOLEAN :
       IF confirmation
       THEN /\ PageReload
            /\ localStorage' = localStorage
            /\ collectedFrom' = NoCoins
            /\ depositedTo' = NoCoins
            /\ lastEvent' = Event("reset", TRUE)
            /\ atReload' = NoDecisions
            /\ UNCHANGED env
       ELSE /\ lastEvent' = Event("reset", FALSE)
            /\ alertShown' = NoAlert
            /\ threw' = FALSE
            /\ atReload' = NoDecisions
            /\ UNCHANGED <<pc, mem, cacheRenderers, tracking, localStorage,
                           hist, knownCells, env>>

\* resetGame: the reset button, with the answer given to confirm()
ResetGame ==
  /\ pc = "running"
  /\ \E confirmation \in BOOLEAN :
       IF confirmation
       THEN /\ PageReload
            /\ localStorage' = EmptyStorage
            /\ collectedFrom' = NoCoins
            /\ depositedTo' = NoCoins
            /\ lastEvent' = Event("reset", TRUE)
            /\ atReload' = NoDecisions
            /\ UNCHANGED env
       ELSE /\ lastEvent' = Event("reset", FALSE)
            /\ alertShown' = NoAlert
            /\ threw' = FALSE
            /\ atReload' = NoDecisions
            /\ UNCHANGED <<pc, mem, cacheRenderers, tracking, localStorage,
                           hist, knownCells, env>>

Next ==
  \/ LoadGameState
  \/ InitializeMap
  \/ MovePlayer
  \/ GeolocationFix
  \/ ToggleGeolocation
  \/ \E key \in AllCells : Collect(key)
  \/ \E key \in AllCells : Deposit(key)
  \/ Reload
  \/ ResetGame

Spec == Init /\ [][Next]_vars

TypeOK ==
  /\ pc \in {"boot", "loaded", "running", "crashed"}
  /\ visitedCells \subseteq AllCells
  /\ DOMAIN cacheStates \subseteq AllCells
  /\ cacheRenderers \subseteq DOMAIN cacheStates

\* ------------------------------------------------- storage found at startup
\* a complete record as saveGameState writes it, the path and the coin count
\* at their bounds
SampleCaches ==
  [k \in {<<1, 0>>, <<2, 0>>} |->
     [NewCache(k[1], k[2]) EXCEPT !.cacheCoins = 1]]

SampleStorage ==
  saveGameState(EmptyStorage, latLng(MaxLat, 0),
                [n \in 1..MaxPath |-> latLng(n % (MaxLat + 1), 0)],
                SampleCaches,
                getCellsNearPoint(OriginPosition)
                  \cup getCellsNearPoint(latLng(MaxLat, 0)),
                MaxCollects, 1)

\* a string parseInt finds no number in
NotANumber == <<"a", "b", "c">>

\* the cacheStates array with the memento of its last cache cut short
BadMemento ==
  LET good == SampleStorage.cacheStates[1].v
  IN Json([n \in 1..Len(good) |->
             IF n = Len(good) THEN <<good[n][1], Malformed>> ELSE good[n]])

\* what another version of the page, the user or a full disk may have left
\* under each key: nothing, the entry of SampleStorage, or a damaged one
EntryChoices(field) ==
  {Absent, SampleStorage[field]}
    \cup (IF field \in {"playerCoins", "coinsAvailableForDeposit"}
          THEN {Present(NotANumber)}
          ELSE IF field = "cacheStates"
          THEN {Present(Malformed), Present(BadMemento)}
          ELSE {Present(Malformed)})

StorageKeys ==
  {"playerPosition", "playerCoins", "coinsAvailableForDeposit",
   "visitedCells", "cacheStates", "playerPath"}

\* the entries of a record that differ from those of SampleStorage
Changed(store) == { f \in StorageKeys : store[f] # SampleStorage[f] }

\* the records considered: SampleStorage with at most one entry missing or
\* damaged, with or without a key of a cell next to it, and the records
\* holding nothing but a path or a coin count
FoundStorages ==
  { st \in [playerPosition : EntryChoices("playerPosition"),
            playerCoins : EntryChoices("playerCoins"),
            coinsAvailableForDeposit :
              EntryChoices("coinsAvailableForDeposit"),
            visitedCells : EntryChoices("visitedCells"),
            cacheStates : EntryChoices("cacheStates"),
            playerPath : EntryChoices("playerPath"),
            cellKeys : {{}, {<<0, 0>>}}] :
      \/ Cardinality(Changed(st)) <= 1
      \/ /\ st.cellKeys = {}
         /\ \E f \in {"playerPath", "playerCoins"} :
              /\ st[f] = SampleStorage[f]
              /\ \A g \in StorageKeys \ {f} : st[g] = Absent }

\* the page is opened on a profile whose localStorage holds anything
InitAnyStorage ==
  /\ FreshPage
  /\ localStorage \in FoundStorages \cup {EmptyStorage}
  /\ NoHistory
  /\ quota = NoQuota
  /\ sensorAvailable = TRUE

SpecAnyStorage == InitAnyStorage /\ [][Next]_vars

\* ------------------------------------------------------------ environments
\* the page is opened in a browser that may have no navigator.geolocation
InitAnySensor ==
  /\ FreshPage
  /\ localStorage = EmptyStorage
  /\ NoHistory
  /\ quota = NoQuota
  /\ sensorAvailable \in BOOLEAN

SpecAnySensor == InitAnySensor /\ [][Next]_vars

\* the page is opened on a profile whose storage is nearly full
InitSmallQuota ==
  /\ FreshPage
  /\ localStorage = EmptyStorage
  /\ NoHistory
  /\ quota = <<StorageQuota>>
  /\ sensorAvailable = TRUE

SpecSmallQuota == InitSmallQuota /\ [][Next]_vars

\* ================================================================== claims
RecomputeOps == {"initializeMap", "move", "geolocation"}
MoveOps == {"move", "geolocation"}

HasCache(k) == k \in DOMAIN cacheStates

\* C1: once a cell is in visitedCells, a recompute of the window neither
\* creates nor removes a cache there, and it leaves every existing cache as
\* it is
C1_DecidedOnce ==
  [][lastEvent'.op \in RecomputeOps =>
       /\ \A k \in visitedCells :
            /\ k \in visitedCells'
            /\ (k \in DOMAIN cacheStates) <=> (k \in DOMAIN cacheStates')
       /\ \A k \in DOMAIN cacheStates :
            /\ k \in DOMAIN cacheStates'
            /\ cacheStates'[k] = cacheStates[k]]_vars

\* the player went one window away and came back: cells decided on the first
\* visit, with and without a cache, have left the window and re-entered it
C1_Witness ==
  /\ lastEvent.op \in MoveOps
  /\ Len(playerPath) = 2
  /\ LET back == getCellsNearPoint(playerPosition)
                   \ getCellsNearPoint(playerPath[1])
     IN /\ \E k \in back : k \in visitedCells /\ HasCache(k)
        /\ \E k \in back : k \in visitedCells /\ ~HasCache(k)

\* C2: a decided cell holds a cache exactly when luck of its coordinate is
\* below the spawn probability
C2_SpawnIsLuckOfCoordinate ==
  \A k \in visitedCells :
    HasCache(k) <=> luck(<<k[1], k[2]>>) < CACHE_SPAWN_PROBABILITY

\* what the record holds, read entry by entry
PersistedEquals(position, path, caches, visited, coins, forDeposit) ==
  /\ \A f \in StorageKeys : localStorage[f] # Absent
  /\ localStorage.playerPosition[1].ok
  /\ localStorage.playerPosition[1].v.lat = position.lat
  /\ localStorage.playerPosition[1].v.lng = position.lng
  /\ localStorage.playerCoins[1] = NatToString(coins)
  /\ localStorage.coinsAvailableForDeposit[1] = NatToString(forDeposit)
  /\ localStorage.visitedCells[1].ok
  /\ SeqToSet(localStorage.visitedCells[1].v) = visited
  /\ localStorage.cacheStates[1].ok
  /\ LET arr == localStorage.cacheStates[1].v
     IN /\ Len(arr) = Cardinality(DOMAIN caches)
        /\ { arr[n][1] : n \in 1..Len(arr) } = DOMAIN caches
        /\ \A n \in 1..Len(arr) :
             /\ arr[n][2].ok
             /\ arr[n][2].v.pointValue = caches[arr[n][1]].pointValue
             /\ arr[n][2].v.cacheCoins = caches[arr[n][1]].cacheCoins
  /\ localStorage.playerPath[1].ok
  /\ LET arr == localStorage.playerPath[1].v
     IN /\ Len(arr) = Len(path)
        /\ \A n \in 1..Len(arr) :
             arr[n] = <<path[n].lat, path[n].lng>>

\* C3: after a move, a geolocation fix, a collect or a deposit that took
\* effect, the persisted record equals the state in memory, the decisions of
\* the new window included
C3_WriteThrough ==
  (lastEvent.op \in MoveOps
     \/ (lastEvent.op \in {"collect", "deposit"} /\ lastEvent.ok))
  => PersistedEquals(playerPosition, playerPath, cacheStates, visitedCells,
                     playerCoins, coinsAvailableForDeposit)

\* a move whose window decided new cells, one of them with a cache
C3_Witness ==
  /\ lastEvent.op = "move"
  /\ \E k \in visitedCells \ getCellsNearPoint(OriginPosition) : HasCache(k)
  /\ PersistedEquals(playerPosition, playerPath, cacheStates, visitedCells,
                     playerCoins, coinsAvailableForDeposit)

\* C4: loading what saveGameState writes gives back the position, the path,
\* the coin counters, the visited set and the caches
C4_RoundTrip ==
  loadGameState(
    saveGameState(EmptyStorage, playerPosition, playerPath, cacheStates,
                  visitedCells, playerCoins, coinsAvailableForDeposit),
    DefaultMemory) = CurrentMemory

\* a state with a path, a cache holding deposited coins, and coins in hand
C4_Witness ==
  /\ pc = "running"
  /\ playerPath # <<>>
  /\ playerPosition.lat # playerPosition.lng
  /\ \E k \in DOMAIN cacheStates : cacheStates[k].cacheCoins > 0
  /\ coinsAvailableForDeposit > 0
  /\ C4_RoundTrip

RECURSIVE SumOver(_, _)
SumOver(f, S) ==
  IF S = {} THEN 0
  ELSE LET x == CHOOSE y \in S : TRUE IN f[x] + SumOver(f, S \ {x})

\* C5: coins are conserved: a cache's initial value is its value now plus
\* what was collected from it, and what was collected less what was
\* deposited is what the player holds
C5_Conservation ==
  pc = "running" =>
    /\ \A k \in DOMAIN cacheStates :
         (luck(<<k[1], k[2], "initialValue">>) * 100) \div 1000
           = cacheStates[k].pointValue + collectedFrom[k]
    /\ SumOver(collectedFrom, AllCells) - SumOver(depositedTo, AllCells)
         = coinsAvailableForDeposit

\* coins were collected and some of them deposited
C5_Witness ==
  /\ pc = "running"
  /\ SumOver(collectedFrom, AllCells) = 3
  /\ SumOver(depositedTo, AllCells) = 2
  /\ coinsAvailableForDeposit = 1

\* C6: a collect that takes effect lowers one cache's pointValue, which was
\* above zero, by one and raises the inventory by one; a deposit that takes
\* effect is made with coins in hand, raises one cache's cacheCoins by one
\* and lowers the inventory by one
C6_OneCoinAtATime ==
  [][/\ (lastEvent'.op = "collect" /\ lastEvent'.ok) =>
          /\ \E k \in DOMAIN cacheStates :
               /\ cacheStates[k].pointValue > 0
               /\ cacheStates' =
                    [cacheStates EXCEPT ![k].pointValue = @ - 1]
          /\ coinsAvailableForDeposit' = coinsAvailableForDeposit + 1
          /\ playerCoins' = playerCoins + 1
     /\ (lastEvent'.op = "deposit" /\ lastEvent'.ok) =>
          /\ coinsAvailableForDeposit > 0
          /\ \E k \in DOMAIN cacheStates :
               cacheStates' = [cacheStates EXCEPT ![k].cacheCoins = @ + 1]
          /\ coinsAvailableForDeposit' = coinsAvailableForDeposit - 1
          /\ playerCoins' = playerCoins
     /\ (lastEvent'.op = "collect"
           /\ \A k \in cacheRenderers : cacheStates[k].pointValue > 0)
          => lastEvent'.ok
     /\ (lastEvent'.op = "deposit" /\ coinsAvailableForDeposit > 0)
          => lastEvent'.ok]_vars

\* three coins collected from one cache, two of them deposited into another
C6_Witness ==
  \E k1, k2 \in DOMAIN cacheStates :
    /\ k1 # k2
    /\ collectedFrom[k1] = 3
    /\ depositedTo[k2] = 2
    /\ cacheStates[k1].pointValue = NewCache(k1[1], k1[2]).pointValue - 3
    /\ cacheStates[k2].cacheCoins = 2
    /\ coinsAvailableForDeposit = 1
    /\ lastEvent = Event("deposit", TRUE)

\* C7: a collect on a cache without value and a deposit without coins in
\* hand change nothing, in memory or in the record, and the page goes on
C7_InvalidActionIsNoOp ==
  [][(\/ lastEvent'.op \in {"collect", "deposit"} /\ ~lastEvent'.ok
      \/ lastEvent'.op = "collect"
           /\ \A k \in cacheRenderers : cacheStates[k].pointValue = 0
      \/ lastEvent'.op = "deposit" /\ coinsAvailableForDeposit = 0)
     => /\ ~lastEvent'.ok
        /\ pc' = "running"
        /\ UNCHANGED <<mem, cacheRenderers, localStorage, tracking>>]_vars

\* a collect was tried on a cache the player had emptied
C7_Witness ==
  /\ lastEvent = Event("collect", FALSE)
  /\ \E k \in cacheRenderers :
       cacheStates[k].pointValue = 0 /\ collectedFrom[k] > 0

\* C8: the coin fields are natural numbers throughout
C8_CoinsAreNaturals ==
  /\ playerCoins \in Nat
  /\ coinsAvailableForDeposit \in Nat
  /\ \A k \in DOMAIN cacheStates :
       cacheStates[k].pointValue \in Nat /\ cacheStates[k].cacheCoins \in Nat

\* a reloaded game with an emptied cache, a deposit, and nothing in hand
C8_Witness ==
  /\ lastEvent.op = "initializeMap"
  /\ playerCoins > 0
  /\ coinsAvailableForDeposit = 0
  /\ \E k \in DOMAIN cacheStates :
       cacheStates[k].pointValue = 0 /\ cacheStates[k].cacheCoins > 0

\* C9: a damaged entry makes startup fall back to the defaults: loading
\* never throws and leaves whole numbers
C9_DamagedEntryFallsBack ==
  /\ pc # "crashed"
  /\ pc = "loaded" =>
       /\ playerCoins \in Nat
       /\ coinsAvailableForDeposit \in Nat
       /\ Changed(localStorage) \ { f \in StorageKeys :
                                    localStorage[f] = Absent } # {}
            => CurrentMemory = DefaultMemory

\* C10: after loading, a field whose entry is absent has its default and a
\* field whose entry is present has the entry's value
C10_AbsentEntryLeavesDefault ==
  (pc = "loaded"
     /\ \A f \in StorageKeys :
          localStorage[f] \in {Absent, SampleStorage[f]})
  => /\ playerPosition =
          IF localStorage.playerPosition = Absent THEN OriginPosition
          ELSE latLng(MaxLat, 0)
     /\ playerCoins =
          IF localStorage.playerCoins = Absent THEN 0 ELSE MaxCollects
     /\ coinsAvailableForDeposit =
          IF localStorage.coinsAvailableForDeposit = Absent THEN 0 ELSE 1
     /\ visitedCells =
          IF localStorage.visitedCells = Absent THEN {}
          ELSE getCellsNearPoint(OriginPosition)
                 \cup getCellsNearPoint(latLng(MaxLat, 0))
     /\ cacheStates =
          IF localStorage.cacheStates = Absent THEN <<>> ELSE SampleCaches
     /\ playerPath =
          IF localStorage.playerPath = Absent THEN <<>>
          ELSE [n \in 1..MaxPath |-> latLng(n % (MaxLat + 1), 0)]

\* a record without a position but with a coin count was loaded
C10_Witness ==
  /\ pc = "loaded"
  /\ localStorage.playerPosition = Absent
  /\ localStorage.playerCoins # Absent
  /\ playerPosition = OriginPosition
  /\ playerCoins = MaxCollects

\* C11: a confirmed reset leaves no persisted entry, every variable of the
\* page at its initial value and tracking off; a declined reset changes
\* neither the memory nor the storage
C11_ResetClearsEverything ==
  [][/\ lastEvent' = Event("reset", TRUE) =>
          /\ localStorage' = EmptyStorage
          /\ CurrentMemory' = DefaultMemory
          /\ cacheRenderers' = {}
          /\ knownCells' = <<>>
          /\ tracking' = FALSE
     /\ lastEvent' = Event("reset", FALSE) =>
          /\ localStorage' = localStorage
          /\ CurrentMemory' = CurrentMemory
          /\ cacheRenderers' = cacheRenderers
          /\ tracking' = tracking]_vars

\* a game with a saved record has just been reset
C11_Witness ==
  /\ lastEvent = Event("reset", TRUE)
  /\ pc = "boot"
  /\ localStorage = EmptyStorage

\* C12: a cache created by a recompute holds floor(luck("i,j,initialValue")
\* * 100) as its point value, a number of 0..99 fixed by its coordinate, and
\* no deposited coin
C12_NewCacheValue ==
  [][lastEvent'.op \in RecomputeOps =>
       \A k \in DOMAIN cacheStates' \ DOMAIN cacheStates :
         /\ cacheStates'[k].pointValue =
              (luck(<<k[1], k[2], "initialValue">>) * 100) \div 1000
         /\ cacheStates'[k].pointValue \in 0..99
         /\ cacheStates'[k].cacheCoins = 0]_vars

\* a recompute has just created caches at two cells, one of them with a luck
\* whose hundredfold is not a whole number
C12_Witness ==
  /\ lastEvent.op \in RecomputeOps
  /\ \E k \in DOMAIN cacheStates :
       /\ (luck(<<k[1], k[2], "initialValue">>) * 100) % 1000 >= 500
       /\ cacheStates[k].pointValue =
            (luck(<<k[1], k[2], "initialValue">>) * 100) \div 1000
       /\ cacheStates[k].cacheCoins = 0
       /\ collectedFrom[k] = 0

\* C16: while the page runs, the cells with a marker on the map are exactly
\* the cells of the window around the player that hold a cache, one marker
\* for each
C16_MarkersAreWindowCaches ==
  pc = "running" =>
    cacheRenderers = getCellsNearPoint(playerPosition) \cap DOMAIN cacheStates

\* after a move one cache is outside the window, without a marker, and
\* another is inside, with one
C16_Witness ==
  /\ pc = "running"
  /\ lastEvent.op \in MoveOps
  /\ \E k \in DOMAIN cacheStates : k \notin getCellsNearPoint(playerPosition)
  /\ \E k \in cacheRenderers : k \in getCellsNearPoint(playerPosition)

\* C17: a position update leaves the point value and the coins of every
\* existing cache and both coin counters as they were; it appends the new
\* position to the path, and the caches it adds are at cells it has just
\* marked visited
C17_MoveFrame ==
  [][lastEvent'.op \in MoveOps =>
       /\ playerCoins' = playerCoins
       /\ coinsAvailableForDeposit' = coinsAvailableForDeposit
       /\ \A k \in DOMAIN cacheStates :
            /\ k \in DOMAIN cacheStates'
            /\ cacheStates'[k].pointValue = cacheStates[k].pointValue
            /\ cacheStates'[k].cacheCoins = cacheStates[k].cacheCoins
       /\ DOMAIN cacheStates' \ DOMAIN cacheStates
            \subseteq visitedCells' \ visitedCells
       /\ visitedCells \subseteq visitedCells'
       /\ playerPath' = Append(playerPath, playerPosition')
       /\ tracking' = tracking
       /\ pc' = pc]_vars

\* the player's first move, made with coins in hand from a cache that had
\* been collected from and deposited to, created a cache
C17_Witness ==
  /\ lastEvent.op \in MoveOps
  /\ playerCoins > 0
  /\ coinsAvailableForDeposit > 0
  /\ \E k \in DOMAIN cacheStates :
       cacheStates[k].cacheCoins > 0 /\ collectedFrom[k] > 0
  /\ Len(playerPath) = 1
  /\ \E k \in DOMAIN cacheStates : k \notin getCellsNearPoint(OriginPosition)

\* C13: for every cell (i, j), toGridCell of the centre of getCellBounds(i, j)
\* is (i, j); stated for the cells the page has visited
C13_CentreMapsToItsCell ==
  \A k \in visitedCells :
    LET centre == getCenter(getCellBounds(keyToCell(k)))
    IN cellKey(toGridCell(centre.lat, centre.lng)) = k

\* C14: the array getCellsNearPoint returns at the player's position holds
\* each cell of the inclusive square around the player's cell exactly once,
\* (2r+1)^2 cells in all; with the radius of the source, at startup, 289
\* cells
C14_WindowIsInclusiveSquare ==
  lastEvent.op \in RecomputeOps =>
    LET r == NEIGHBORHOOD_SIZE
        origin == toGridCell(playerPosition.lat, playerPosition.lng)
        cells == cellsNearPointArray(playerPosition, r)
        wide == cellsNearPointArray(playerPosition, DEFAULT_NEIGHBORHOOD_SIZE)
    IN /\ Len(cells) = (2 * r + 1) * (2 * r + 1)
       /\ \A m, n \in 1..Len(cells) : cells[m] = cells[n] => m = n
       /\ SeqToSet(cells) =
            { <<origin.i + di, origin.j + dj>> : di \in (0 - r)..r,
                                                 dj \in (0 - r)..r }
       /\ SeqToSet(cells) = getCellsNearPoint(playerPosition)
       /\ lastEvent.op = "initializeMap" =>
            /\ Len(wide) = 289
            /\ Cardinality(SeqToSet(wide)) = 289
            /\ \A di, dj \in {0 - DEFAULT_NEIGHBORHOOD_SIZE,
                                DEFAULT_NEIGHBORHOOD_SIZE} :
                 <<origin.i + di, origin.j + dj>> \in SeqToSet(wide)

\* the window has just been computed around a cell other than the origin's,
\* its corners included
C14_Witness ==
  /\ lastEvent.op \in MoveOps
  /\ toGridCell(playerPosition.lat, playerPosition.lng) # toGridCell(0, 0)
  /\ LET origin == toGridCell(playerPosition.lat, playerPosition.lng)
     IN \A di, dj \in {0 - NEIGHBORHOOD_SIZE, NEIGHBORHOOD_SIZE} :
          /\ <<origin.i + di, origin.j + dj>> \in visitedCells
          /\ <<origin.i + di, origin.j + dj>> \in DOMAIN knownCells

\* C15: the registry holds one cell under each coordinate, the one of that
\* coordinate; a call of getCellsNearPoint leaves every cell the registry
\* held in place, returns registered cells for the whole window, and the
\* cells it registers are objects it made itself
C15_RegistryIsCanonical ==
  [][/\ \A k \in DOMAIN knownCells' : cellKey(knownCells'[k]) = k
     /\ lastEvent'.op \in RecomputeOps =>
          /\ \A k \in DOMAIN knownCells :
               k \in DOMAIN knownCells' /\ knownCells'[k] = knownCells[k]
          /\ \A k \in getCellsNearPoint(playerPosition') :
               k \in DOMAIN knownCells'
          /\ \A k \in DOMAIN knownCells' \ DOMAIN knownCells :
               knownCells'[k].obj[1] = Len(playerPath')
     /\ lastEvent'.op \in {"collect", "deposit", "sensor"} =>
          knownCells' = knownCells]_vars

\* a second call found cells of its window registered by the first and
\* registered the others
C15_Witness ==
  /\ lastEvent.op \in MoveOps
  /\ \E k \in getCellsNearPoint(playerPosition) :
       k \in DOMAIN knownCells /\ knownCells[k].obj[1] < Len(playerPath)
  /\ \E k \in getCellsNearPoint(playerPosition) :
       k \in DOMAIN knownCells /\ knownCells[k].obj[1] = Len(playerPath)

\* C18: a handler that throws leaves the persisted record as it was: no
\* entry of it has been overwritten
C18_AllOrNothing ==
  [][(lastEvent'.op \in {"move", "geolocation", "collect", "deposit"}
        /\ threw')
       => localStorage' = localStorage]_vars

\* a notice that tells the user the position source failed: the page has
\* the two texts of toggleGeolocation and no other
IsFailureNotice(text) == text \notin {NoAlert, StartedAlert, StoppedAlert}

\* C19: switching tracking on without a sensor shows a failure notice,
\* leaves tracking off and leaves position, path, coins, visited set, caches
\* and the record as they are
C19_SensorFailureIsReported ==
  [][(lastEvent'.op = "sensor" /\ ~tracking /\ ~sensorAvailable) =>
       /\ IsFailureNotice(alertShown')
       /\ tracking' = FALSE
       /\ CurrentMemory' = CurrentMemory
       /\ localStorage' = localStorage
       /\ pc' = "running"]_vars

\* C20: when startup has finished after a reload, every cell that was
\* decided when the page was reloaded is visited and has a cache exactly if
\* it had one
C20_DecisionsSurviveReload ==
  lastEvent.op = "initializeMap" =>
    /\ atReload.visited \subseteq visitedCells
    /\ \A k \in atReload.visited :
         (k \in atReload.caches) <=> (k \in DOMAIN cacheStates)

\* C21: every coordinate with a cache is a visited one, in memory and in the
\* persisted record
C21_CachesAreVisited ==
  /\ DOMAIN cacheStates \subseteq visitedCells
  /\ persistedCacheKeys(localStorage) \subseteq persistedVisited(localStorage)

\* after a move and a reload, caches inside and outside the window are in
\* memory and in the record, among visited cells without a cache
C21_Witness ==
  /\ pc = "running"
  /\ lastEvent.op = "initializeMap"
  /\ \E k \in DOMAIN cacheStates : k \notin getCellsNearPoint(playerPosition)
  /\ \E k \in DOMAIN cacheStates : k \in getCellsNearPoint(playerPosition)
  /\ persistedCacheKeys(localStorage) = DOMAIN cacheStates
  /\ persistedVisited(localStorage) = visitedCells
  /\ visitedCells \ DOMAIN cacheStates # {}

\* the coins deposited in the caches of a cache map
cacheCoinsOf(caches) == [k \in DOMAIN caches |-> caches[k].cacheCoins]

\* C22 as stated: playerCoins never decreases, whatever the handler, and a
\* reload brings back all that was collected
C22_CoinsNeverDecrease ==
  [][/\ lastEvent'.op \notin {"reload", "load"} => playerCoins' >= playerCoins
     /\ lastEvent'.op = "load" =>
          playerCoins' = SumOver(collectedFrom, AllCells)]_vars

\* C22, amended: once the record is loaded, playerCoins less
\* coinsAvailableForDeposit is the sum of cacheCoins over all caches and
\* coinsAvailableForDeposit is at most playerCoins; no handler other than a
\* confirmed reset lowers playerCoins, and a reload brings back all that was
\* collected
C22_CountersMatchCaches ==
  [][/\ pc' \in {"loaded", "running"} =>
          /\ coinsAvailableForDeposit' <= playerCoins'
          /\ playerCoins' - coinsAvailableForDeposit'
               = SumOver(cacheCoinsOf(cacheStates'), DOMAIN cacheStates')
     /\ lastEvent'.op \notin {"reload", "reset", "load"} =>
          playerCoins' >= playerCoins
     /\ lastEvent' = Event("reset", FALSE) => playerCoins' = playerCoins
     /\ lastEvent'.op = "load" =>
          playerCoins' = SumOver(collectedFrom, AllCells)]_vars

\* a page reloaded after three collects and two deposits into two caches
C22_Witness ==
  /\ pc = "running"
  /\ lastEvent.op = "initializeMap"
  /\ playerCoins = 3
  /\ coinsAvailableForDeposit = 1
  /\ \E k1, k2 \in DOMAIN cacheStates :
       /\ k1 # k2
       /\ cacheStates[k1].cacheCoins = 1
       /\ cacheStates[k2].cacheCoins = 1

\* C23: a move or a geolocation fix appends the new position to the path,
\* no other handler changes the path, and a path that is not empty ends at
\* the player's position, in a running page and in one just loaded
C23_PathEndsAtPosition ==
  [][/\ lastEvent'.op \in MoveOps =>
          /\ Len(playerPath') = Len(playerPath) + 1
          /\ \A n \in 1..Len(playerPath) : playerPath'[n] = playerPath[n]
          /\ playerPath'[Len(playerPath')] = playerPosition'
     /\ (lastEvent'.op \in {"collect", "deposit", "sensor", "initializeMap"}
           \/ lastEvent' = Event("reset", FALSE))
          => playerPath' = playerPath /\ playerPosition' = playerPosition
     /\ Len(playerPath') > 0 =>
          playerPath'[Len(playerPath')] = playerPosition']_vars

\* a page just loaded from the record of a game with two position updates
\* to different places
C23_Witness ==
  /\ pc = "loaded"
  /\ lastEvent.op = "load"
  /\ Len(playerPath) = 2
  /\ playerPath[1] # playerPath[2]
  /\ playerPath[2] = playerPosition
  /\ playerPosition # OriginPosition

=============================================================================
